---- MODULE Spec2Model ----
(***************************************************************************)
(* Model of the chat backend of MS-code-to-give: the Express endpoint      *)
(* POST /chatbot (server/index.js) and the Dialogflow bridge               *)
(* talkToChatbot (server/chatbot.js).                                      *)
(*                                                                         *)
(* Requests are numbered in the order the server accepts them.  For each   *)
(* request the model follows the promise chain of the code:                *)
(*   Post           the synchronous part of the route handler, which calls *)
(*                  talkToChatbot up to its await (one detectIntent call); *)
(*   Fulfil/Reject  the remote service settles the detectIntent promise;   *)
(*   BridgeResume   the .then/.catch callbacks of chatbot.js and the       *)
(*                  return of talkToChatbot;                               *)
(*   EndpointResume the .then/.catch callbacks of index.js (res.send).     *)
(* JavaScript values are tagged records, JSON objects are sets of          *)
(* key/value fields, and res.send serialises its argument as               *)
(* JSON.stringify does.                                                    *)
(*                                                                         *)
(* Further specifications share the module:                                *)
(*   StartupSpec    the loading of server/index.js and of the              *)
(*                  server/chatbot.js it requires, up to the events of the *)
(*                  two app.listen calls;                                  *)
(*   ToggleSpec     the English/Hindi toggle of the home page              *)
(*                  (client/src/App.js and the header's click handlers);   *)
(*   PathSpec       the resource names of the generated Dialogflow         *)
(*                  clients: a name is rendered from its parts and parsed  *)
(*                  back by the client's matchers;                         *)
(*   ClientsSpec    the constructors of the generated clients, the promise *)
(*                  of their service stub, and their request methods.      *)
(* PathTemplate, createApiCall and routingHeader.fromParams are google-gax *)
(* code; they are modelled by what the clients rely on.                    *)
(***************************************************************************)
EXTENDS Integers, Sequences, FiniteSets

VARIABLES reqs, pc, outbound, rpc, bridge, sent, crashed,
          envPort, dotenvPort, spc, listeners, ticks,
          flags, todo, clicks,
          rendered, matched,
          clients, apiCall, reached

\* the module loading of the server: process.env.PORT, the PORT of the
\* .env file, the position in the loading, the bound listeners and the
\* queue of process.nextTick callbacks
startupVars == <<envPort, dotenvPort, spc, listeners, ticks>>

\* the language toggle of the home page: the two flags, the setter calls the
\* running click handler has still to make, and the clicks so far
clientVars == <<flags, todo, clicks>>

\* the resource names of the generated Dialogflow clients: the name rendered
\* last, with the client and the arguments it was rendered from, and what
\* the client's matchers made of it
pathVars == <<rendered, matched>>

\* the two generated clients: per client class the progress of its
\* constructor, the promise of its service stub and the names that have an
\* inner API call; the request method call in progress; and per client
\* whether a call has reached its stub
gapicVars == <<clients, apiCall, reached>>

\* the generated clients of node_modules/dialogflow
libVars == <<pathVars, gapicVars>>

vars == <<reqs, pc, outbound, rpc, bridge, sent, crashed,
          startupVars, clientVars, libVars>>

----------------------------------------------------------------------------
(* Bounds of the model *)

MaxRequests == 2

Ids == 1..MaxRequests

----------------------------------------------------------------------------
(* JavaScript values *)

Undefined == [type |-> "undefined"]

Null == [type |-> "null"]

Str(s) == [type |-> "string", str |-> s]

\* a JavaScript array; items[1] is element 0
Array(items) == [type |-> "array", items |-> items]

Field(k, v) == [key |-> k, value |-> v]

\* obj[k] of a plain object: undefined when the key is absent
Get(obj, k) ==
  IF \E f \in obj : f.key = k
    THEN (CHOOSE f \in obj : f.key = k).value
    ELSE Undefined

HasKey(obj, k) == \E f \in obj : f.key = k

\* JSON.stringify of a plain object: properties whose value is undefined
\* are left out of the text
JSONStringify(obj) == {f \in obj : f.value # Undefined}

----------------------------------------------------------------------------
(* Promises *)

Pending == [state |-> "pending", value |-> Undefined]

Fulfilled(v) == [state |-> "fulfilled", value |-> v]

Rejected(e) == [state |-> "rejected", value |-> e]

----------------------------------------------------------------------------
(* The inputs: request bodies and the remote service's answers *)

MessageTexts == {"", "hello"}

\* req.body after the body parsers: with or without a message field
Bodies == {{}} \cup {{Field("message", Str(t))} : t \in MessageTexts}

FulfillmentTexts == {"", "Hi there"}

IntentNames == {"Welcome", "Fallback"}

QueryResults ==
  [type : {"object"}, fulfillmentText : FulfillmentTexts, intent : IntentNames]

\* the array detectIntent resolves with; responses[0] is the
\* DetectIntentResponse
Responses ==
  {Array(<<[responseId |-> "response-id", queryResult |-> q]>>) :
     q \in QueryResults}

ErrorCodes == {"UNAVAILABLE", "UNAUTHENTICATED", "RESOURCE_EXHAUSTED"}

Errors == [type : {"error"}, code : ErrorCodes]

----------------------------------------------------------------------------
(* server/chatbot.js *)

projectId == "projectId"

sessionId == "987654"

languageCode == "en-US"

\* sessionClient.sessionPath(projectId, sessionId)
SessionPathOf(project, session) ==
  <<"projects", project, "agent", "sessions", session>>

sessionPath == SessionPathOf(projectId, sessionId)

\* variant: the session is chosen per message
botRequest_SessionPerMessage(message) ==
  [session |-> SessionPathOf(projectId,
                 IF message = Undefined THEN sessionId ELSE message.str),
   queryInput |-> [text |-> [text |-> message, languageCode |-> languageCode]]]

\* variant: the language tag of the web widget ("en") instead of "en-US"
botRequest_ShortLanguage(message) ==
  [session |-> sessionPath,
   queryInput |-> [text |-> [text |-> message, languageCode |-> "en"]]]

botRequest(message) ==
  [session |-> sessionPath,
   queryInput |-> [text |-> [text |-> message, languageCode |-> languageCode]]]

\* variant: the call is issued twice (a retry)
detectIntent_Twice(r, request) ==
  <<[id |-> r, request |-> request], [id |-> r, request |-> request]>>

\* the outbound calls one invocation of talkToChatbot puts on the wire
detectIntent(r, request) == <<[id |-> r, request |-> request]>>

\* variant: the callback has no return statement
requiredResponse_NoReturn(responses) == Undefined

\* variant: the callback returns the whole DetectIntentResponse
requiredResponse_Whole(responses) == responses.items[1]

\* .then((responses) => { ...; return requiredResponse; })
requiredResponse(responses) == responses.items[1].queryResult

\* variant: the callback returns null
logError_Null(error) == Null

\* variant: the callback answers with an empty fallback reply
logError_EmptyReply(error) ==
  [type |-> "object", fulfillmentText |-> "", intent |-> "Fallback"]

\* .catch((error) => { console.log("ERROR: " + error); })
logError(error) == Undefined

\* variant: no .catch on the detectIntent promise
talkToChatbot_NoCatch(p) ==
  IF p.state = "fulfilled" THEN Fulfilled(requiredResponse(p.value)) ELSE p

\* the promise talkToChatbot returns, once detectIntent's promise p settled:
\* const response = await p.then(..).catch(..); return response;
\* .then runs its callback on the value of a fulfilled promise and passes a
\* rejection on; .catch runs its callback on the reason of a rejected
\* promise and fulfils with the callback's return value.
talkToChatbot(p) ==
  LET afterThen ==
        IF p.state = "fulfilled"
          THEN Fulfilled(requiredResponse(p.value)) ELSE p
      afterCatch ==
        IF afterThen.state = "rejected"
          THEN Fulfilled(logError(afterThen.value)) ELSE afterThen
  IN afterCatch

----------------------------------------------------------------------------
(* server/index.js *)

\* res.send(obj): status 200 and the JSON text of obj
Send(obj) == [status |-> 200, body |-> JSONStringify(obj)]

\* .then((response) => { res.send({ message: response }); })
sendMessage(response) == Send({Field("message", response)})

\* .catch((error) => { ...; res.send({ error: "Error occured here" }); })
sendError(error) == Send({Field("error", Str("Error occured here"))})

\* variant: the handler answers an undefined result with the error body
respond_ErrorOnUndefined(b) ==
  IF b.state = "fulfilled" /\ b.value # Undefined
    THEN <<sendMessage(b.value)>>
    ELSE <<sendError(b.value)>>

\* variant: the reply is kept in a module-level variable and reused
respond_Cached(b) ==
  IF \E x \in Ids : sent[x] # << >>
    THEN sent[CHOOSE x \in Ids : sent[x] # << >>]
    ELSE IF b.state = "fulfilled" THEN <<sendMessage(b.value)>>
                                  ELSE <<sendError(b.value)>>

\* variant: both callbacks send
respond_Both(b) == <<sendMessage(b.value), sendError(b.value)>>

\* what talkToChatbot(message).then(..).catch(..) sends for the settled
\* promise b of talkToChatbot
respond(b) ==
  IF b.state = "fulfilled" THEN <<sendMessage(b.value)>>
                           ELSE <<sendError(b.value)>>

\* variant: the handler awaits talkToChatbot without a catch and reads a
\* property of the response, which throws a TypeError on undefined
handlerSettles_AwaitNoCatch(b) ==
  IF b.state = "fulfilled" /\ b.value # Undefined
    THEN Fulfilled(Undefined)
    ELSE Rejected([type |-> "error", code |-> "TypeError"])

\* the promise at the end of talkToChatbot(message).then(..).catch(..) for
\* the settled promise b of talkToChatbot: both callbacks return undefined.
\* A rejected promise without a handler there is an unhandled rejection,
\* which ends the process.
handlerSettles(b) ==
  LET afterThen ==
        IF b.state = "fulfilled" THEN Fulfilled(Undefined) ELSE b
      afterCatch ==
        IF afterThen.state = "rejected"
          THEN Fulfilled(Undefined) ELSE afterThen
  IN afterCatch

----------------------------------------------------------------------------
(* Loading server/index.js, which requires server/chatbot.js *)

\* process.env.PORT, or PORT of the .env file, when it is not set
Unset == 0

DefaultPort == 5000

Ports == {3000, 5000, 8000, 8080}

EnvValues == {Unset} \cup Ports

\* process.env.PORT || 5000
PortOr(env) == IF env = Unset THEN DefaultPort ELSE env

\* dotenv.config(): a variable the environment already has is kept
DotenvLoad(env, file) == IF env = Unset THEN file ELSE env

\* the Express apps the two files create
IndexApp == "index.js"

ChatbotApp == "chatbot.js"

\* the routes registered on an app before it listens
RoutesOf(app) == IF app = IndexApp THEN {"POST /chatbot"} ELSE {}

PortInUse(port) == \E l \in listeners : l.port = port

\* app.listen(PORT, ...) of chatbot.js: the port is bound at once when it is
\* free; the 'listening' or the 'error' (EADDRINUSE) event is emitted on the
\* next tick
ListenChatbot(port) ==
  /\ listeners' =
       IF PortInUse(port) THEN listeners
                          ELSE listeners \cup {[port |-> port, app |-> ChatbotApp]}
  /\ ticks' = Append(ticks,
       [kind |-> IF PortInUse(port) THEN "error" ELSE "listening",
        app |-> ChatbotApp])

\* app.listen(port, ...) of index.js
ListenIndex(port) ==
  /\ listeners' =
       IF PortInUse(port) THEN listeners
                          ELSE listeners \cup {[port |-> port, app |-> IndexApp]}
  /\ ticks' = Append(ticks,
       [kind |-> IF PortInUse(port) THEN "error" ELSE "listening",
        app |-> IndexApp])

StartupNotFollowed ==
  /\ envPort = Unset
  /\ dotenvPort = Unset
  /\ spc = "serving"
  /\ listeners = {}
  /\ ticks = << >>

----------------------------------------------------------------------------
(* The language toggle: Home of client/src/App.js and the click handlers   *)
(* of the header                                                           *)

MaxClicks == 5

\* const [en1, setBool1] = useState(true)
setBool1(f, v) == [f EXCEPT !.en1 = v]

\* const [hn1, setBool2] = useState(false)
setBool2(f, v) == [f EXCEPT !.hn1 = v]

Call(setter, value) == [setter |-> setter, value |-> value]

\* the state after one setter call
Apply(f, call) ==
  IF call.setter = "setBool1" THEN setBool1(f, call.value)
                              ELSE setBool2(f, call.value)

\* variant: the English button raises its own flag and leaves the Hindi flag
onClickBtn1_NoClear == <<Call("setBool1", TRUE), Call("setBool1", TRUE)>>

\* the setter calls of the English button, in order
onClickBtn1 == <<Call("setBool2", FALSE), Call("setBool1", TRUE)>>

\* variant: the Hindi flag is raised before the English flag is cleared
onClickBtn2_RaiseFirst == <<Call("setBool2", TRUE), Call("setBool1", FALSE)>>

\* the setter calls of the Hindi button, in order
onClickBtn2 == <<Call("setBool1", FALSE), Call("setBool2", TRUE)>>

\* {en1 && (...)} and {hn1 && (...)}
ShowsEnglish == flags.en1

ShowsHindi == flags.hn1

ToggleInit ==
  /\ flags = [en1 |-> TRUE, hn1 |-> FALSE]
  /\ todo = << >>
  /\ clicks = << >>

----------------------------------------------------------------------------
(* Resource names of the generated clients:                                *)
(* node_modules/dialogflow/src/v2/entity_types_client.js and               *)
(* node_modules/dialogflow/src/v2beta1/documents_client.js                 *)

MaxLen == 2

\* a string is the sequence of its characters
Alphabet == {"a", "/"}

Strings == UNION {[1..n -> Alphabet] : n \in 0..MaxLen}

SlashFree(str) == \A i \in 1..Len(str) : str[i] # "/"

\* the segments of a path template: a literal or a {variable}
Literal(text) == [kind |-> "literal", text |-> text, name |-> ""]

Binding(name) == [kind |-> "binding", text |-> << >>, name |-> name]

\* 'projects/{project}/agent/entityTypes/{entity_type}'
entityTypePathTemplate ==
  << Literal(<<"p", "r", "o", "j", "e", "c", "t", "s">>),
     Binding("project"),
     Literal(<<"a", "g", "e", "n", "t">>),
     Literal(<<"e", "n", "t", "i", "t", "y", "T", "y", "p", "e", "s">>),
     Binding("entity_type") >>

\* 'projects/{project}/knowledgeBases/{knowledge_base}/documents/{document}'
documentPathTemplate ==
  << Literal(<<"p", "r", "o", "j", "e", "c", "t", "s">>),
     Binding("project"),
     Literal(<<"k", "n", "o", "w", "l", "e", "d", "g", "e",
               "B", "a", "s", "e", "s">>),
     Binding("knowledge_base"),
     Literal(<<"d", "o", "c", "u", "m", "e", "n", "t", "s">>),
     Binding("document") >>

BindingNames(template) ==
  {template[i].name : i \in {j \in 1..Len(template) : template[j].kind = "binding"}}

\* segments.join('/')
RECURSIVE JoinSegments(_)
JoinSegments(segments) ==
  IF segments = << >> THEN << >>
  ELSE IF Len(segments) = 1 THEN segments[1]
  ELSE segments[1] \o <<"/">> \o JoinSegments(Tail(segments))

\* path.split('/')
RECURSIVE SplitPath(_)
SplitPath(path) ==
  LET slashes == {i \in 1..Len(path) : path[i] = "/"}
  IN IF slashes = {} THEN <<path>>
     ELSE LET first == CHOOSE i \in slashes : \A j \in slashes : i <= j
          IN <<SubSeq(path, 1, first - 1)>>
               \o SplitPath(SubSeq(path, first + 1, Len(path)))

\* PathTemplate.render(bindings): the template with each {variable}
\* replaced by its value
Render(template, bindings) ==
  JoinSegments([i \in 1..Len(template) |->
                  IF template[i].kind = "binding"
                    THEN bindings[template[i].name]
                    ELSE template[i].text])

\* PathTemplate.match(path): the path is split at its slashes; a path with
\* another number of segments than the template, or with another segment
\* where the template has a literal, is a TypeError; else each variable is
\* bound to the segment at its place
Match(template, path) ==
  LET segments == SplitPath(path)
      fits == /\ Len(segments) = Len(template)
              /\ \A i \in 1..Len(template) :
                   template[i].kind = "literal" => segments[i] = template[i].text
  IN [threw |-> ~fits,
      bindings |->
        [v \in BindingNames(template) |->
           IF fits
             THEN segments[CHOOSE i \in 1..Len(template) :
                             template[i].kind = "binding" /\ template[i].name = v]
             ELSE << >>]]

\* the outcome of a matcher: the string it returns, or the TypeError of
\* match passed on
Returns(m, variable) ==
  [threw |-> m.threw, value |-> IF m.threw THEN << >> ELSE m.bindings[variable]]

entityTypePath(project, entityType) ==
  Render(entityTypePathTemplate,
         [project |-> project, entity_type |-> entityType])

matchProjectFromEntityTypeName(entityTypeName) ==
  Returns(Match(entityTypePathTemplate, entityTypeName), "project")

\* variant: the matcher reads the field of its neighbour
matchEntityTypeFromEntityTypeName_Project(entityTypeName) ==
  Returns(Match(entityTypePathTemplate, entityTypeName), "project")

matchEntityTypeFromEntityTypeName(entityTypeName) ==
  Returns(Match(entityTypePathTemplate, entityTypeName), "entity_type")

documentPath(project, knowledgeBase, document) ==
  Render(documentPathTemplate,
         [project |-> project, knowledge_base |-> knowledgeBase,
          document |-> document])

matchProjectFromDocumentName(documentName) ==
  Returns(Match(documentPathTemplate, documentName), "project")

matchKnowledgeBaseFromDocumentName(documentName) ==
  Returns(Match(documentPathTemplate, documentName), "knowledge_base")

matchDocumentFromDocumentName(documentName) ==
  Returns(Match(documentPathTemplate, documentName), "document")

NothingRendered == [client |-> "none", args |-> << >>, name |-> << >>]

NothingMatched == [state |-> "none", results |-> << >>]

PathsNotFollowed ==
  /\ rendered = NothingRendered
  /\ matched = NothingMatched

----------------------------------------------------------------------------
(* The generated clients: constructor and request methods *)

Clients == {"EntityTypesClient", "DocumentsClient"}

\* entityTypesStubMethods and documentsStubMethods
stubMethods(c) ==
  IF c = "EntityTypesClient"
    THEN {"listEntityTypes", "getEntityType", "createEntityType",
          "updateEntityType", "deleteEntityType", "batchUpdateEntityTypes",
          "batchDeleteEntityTypes", "batchCreateEntities",
          "batchUpdateEntities", "batchDeleteEntities"}
    ELSE {"listDocuments", "getDocument", "createDocument", "deleteDocument",
          "updateDocument", "reloadDocument"}

\* JavaScript objects and functions: both carry properties
Obj(fields) == [type |-> "object", fields |-> fields]

Fn(name) == [type |-> "function", name |-> name, fields |-> {}]

IsFunction(v) == v.type = "function"

\* a || b
Or(a, b) == IF a \in {Undefined, Null, Str("")} THEN b ELSE a

\* obj[k] of an object or a function
Prop(obj, k) == Get(obj.fields, k)

\* obj[k] = v
SetProp(obj, k, v) ==
  [obj EXCEPT !.fields = {f \in @ : f.key # k} \cup {Field(k, v)}]

TypeError == [type |-> "error", code |-> "TypeError"]

\* the errors createStub can fail with
StubErrors == [type : {"error"}, code : {"ENOENT", "UNAUTHENTICATED"}]

\* the field of the request a method routes by, as the key of the routing
\* header and as the path of the value in the request
RoutingKey(m) ==
  IF m \in {"getEntityType", "deleteEntityType", "getDocument",
            "deleteDocument", "reloadDocument"} THEN "name"
  ELSE IF m = "updateEntityType" THEN "entity_type.name"
  ELSE IF m = "updateDocument" THEN "document.name"
  ELSE "parent"

RoutingPath(m) ==
  IF m = "updateEntityType" THEN <<"entityType", "name">>
  ELSE IF m = "updateDocument" THEN <<"document", "name">>
  ELSE <<RoutingKey(m)>>

\* gax.routingHeader.fromParams({key: value}): the query string key=value,
\* with nothing after the = for an undefined value
fromParams(key, value) ==
  [type |-> "string", key |-> key,
   text |-> IF value = Undefined THEN "" ELSE value.str]

RequestParamsHeader == "x-goog-request-params"

\* variant: a header the caller supplied is kept
apiMethod_KeepCallerHeader(m, request, options, callback) ==
  LET swap == IsFunction(options) /\ callback = Undefined
      cb == IF swap THEN options ELSE callback
      req == Or(request, Obj({}))
      o1 == Or(IF swap THEN Obj({}) ELSE options, Obj({}))
      o2 == SetProp(o1, "otherArgs", Or(Prop(o1, "otherArgs"), Obj({})))
      headers == Or(Prop(Prop(o2, "otherArgs"), "headers"), Obj({}))
      path == RoutingPath(m)
      holder == IF Len(path) = 1 THEN req ELSE Prop(req, path[1])
      throws == holder = Undefined
      routed == IF throws THEN headers
                ELSE IF HasKey(headers.fields, RequestParamsHeader) THEN headers
                ELSE SetProp(headers, RequestParamsHeader,
                       fromParams(RoutingKey(m), Prop(holder, path[Len(path)])))
      o3 == SetProp(o2, "otherArgs",
                    SetProp(Prop(o2, "otherArgs"), "headers", routed))
  IN [threw |-> throws,
      invocations |->
        IF throws THEN << >>
        ELSE <<[method |-> m, request |-> req, options |-> o3, callback |-> cb]>>]

\* a request method, such as listEntityTypes(request, options, callback):
\* whether it throws, and the invocations of this._innerApiCalls[m] it makes.
\* Reading a property of an undefined request.entityType or request.document
\* is a TypeError.
apiMethod(m, request, options, callback) ==
  LET swap == IsFunction(options) /\ callback = Undefined
      cb == IF swap THEN options ELSE callback
      req == Or(request, Obj({}))
      o1 == Or(IF swap THEN Obj({}) ELSE options, Obj({}))
      o2 == SetProp(o1, "otherArgs", Or(Prop(o1, "otherArgs"), Obj({})))
      headers == Or(Prop(Prop(o2, "otherArgs"), "headers"), Obj({}))
      path == RoutingPath(m)
      holder == IF Len(path) = 1 THEN req ELSE Prop(req, path[1])
      throws == holder = Undefined
      routed == IF throws THEN headers
                ELSE SetProp(headers, RequestParamsHeader,
                       fromParams(RoutingKey(m), Prop(holder, path[Len(path)])))
      o3 == SetProp(o2, "otherArgs",
                    SetProp(Prop(o2, "otherArgs"), "headers", routed))
  IN [threw |-> throws,
      invocations |->
        IF throws THEN << >>
        ELSE <<[method |-> m, request |-> req, options |-> o3, callback |-> cb]>>]

\* the functions innerCallPromise resolves with
Forward(methodName) == [kind |-> "forward", method |-> methodName, err |-> Undefined]

Thrower(err) == [kind |-> "thrower", method |-> "", err |-> err]

Silent == [kind |-> "silent", method |-> "", err |-> Undefined]

\* variant: the rejection handler returns a function that does nothing
innerCallPromise_Swallow(stubPromise, methodName) ==
  IF stubPromise.state = "fulfilled" THEN Fulfilled(Forward(methodName))
  ELSE IF stubPromise.state = "rejected" THEN Fulfilled(Silent)
  ELSE Pending

\* stub.then(stub => (...args) => stub[methodName].apply(stub, args),
\*           err => () => { throw err; })
innerCallPromise(stubPromise, methodName) ==
  IF stubPromise.state = "fulfilled" THEN Fulfilled(Forward(methodName))
  ELSE IF stubPromise.state = "rejected" THEN Fulfilled(Thrower(stubPromise.value))
  ELSE Pending

\* the arguments of the request methods
AgentNames == {"projects/p/agent", "projects/q/agent"}

RequestArgs ==
  {Undefined, Obj({})}
    \cup {Obj({Field("parent", Str(n))}) : n \in AgentNames}
    \cup {Obj({Field("name", Str("projects/p/agent/entityTypes/e"))}),
          Obj({Field("entityType", Obj({Field("name", Str("projects/p/agent/entityTypes/e"))}))}),
          Obj({Field("document", Obj({}))})}

CallerHeaders ==
  {Obj({}),
   Obj({Field("x-custom", Str("v"))}),
   Obj({Field(RequestParamsHeader, Str("parent=caller"))}),
   Obj({Field("x-custom", Str("v")),
        Field(RequestParamsHeader, Str("parent=caller"))})}

OptionsArgs ==
  {Undefined, Null, Obj({}), Obj({Field("timeout", Str("5000"))}),
   Obj({Field("otherArgs", Obj({}))}), Fn("callback")}
    \cup {Obj({Field("otherArgs", Obj({Field("headers", h)}))}) : h \in CallerHeaders}
    \cup {Obj({Field("timeout", Str("5000")),
               Field("otherArgs", Obj({Field("userAgent", Str("ua")),
                                       Field("headers", h)}))}) :
            h \in CallerHeaders}

CallbackArgs == {Undefined, Fn("callback")}

NotConstructed == [constructed |-> "no", stub |-> Pending, innerApiCalls |-> {}]

NoCall ==
  [state |-> "none", client |-> "none", method |-> "none",
   given |-> [request |-> Undefined, options |-> Undefined, callback |-> Undefined],
   invocations |-> << >>, error |-> Undefined]

NothingConstructed ==
  /\ clients = [c \in Clients |-> NotConstructed]
  /\ apiCall = NoCall
  /\ reached = [c \in Clients |-> FALSE]

LibNotFollowed == PathsNotFollowed /\ NothingConstructed

----------------------------------------------------------------------------
(* The state machine *)

\* no request has arrived
ServerInit ==
  /\ reqs = << >>
  /\ pc = [r \in Ids |-> "none"]
  /\ outbound = << >>
  /\ rpc = [r \in Ids |-> Pending]
  /\ bridge = [r \in Ids |-> Pending]
  /\ sent = [r \in Ids |-> << >>]
  /\ crashed = FALSE

\* Spec follows the request handling of a process that serves
\* POST /chatbot; the loading of the modules is followed by StartupSpec and
\* the home page by ToggleSpec.
Init ==
  /\ ServerInit
  /\ StartupNotFollowed
  /\ ToggleInit
  /\ LibNotFollowed

\* variant: the handler rejects a missing or empty message with status 400
\* and does not call the bridge
Post_Validating(body) ==
  /\ ~crashed
  /\ Len(reqs) < MaxRequests
  /\ LET r == Len(reqs) + 1
         message == Get(body, "message")
     IN /\ reqs' = Append(reqs, body)
        /\ IF message \in {Undefined, Str("")}
             THEN /\ sent' = [sent EXCEPT ![r] =
                        <<[status |-> 400,
                           body |-> {Field("error", Str("message required"))}]>>]
                  /\ pc' = [pc EXCEPT ![r] = "done"]
                  /\ UNCHANGED outbound
             ELSE /\ outbound' = outbound \o detectIntent(r, botRequest(message))
                  /\ pc' = [pc EXCEPT ![r] = "awaiting"]
                  /\ UNCHANGED sent
  /\ UNCHANGED <<rpc, bridge, crashed>>
  /\ UNCHANGED <<startupVars, clientVars, libVars>>

\* variant: the handler answers without waiting for the bridge
Post_NoWait(body) ==
  /\ ~crashed
  /\ Len(reqs) < MaxRequests
  /\ LET r == Len(reqs) + 1
         message == Get(body, "message")
     IN /\ reqs' = Append(reqs, body)
        /\ outbound' = outbound \o detectIntent(r, botRequest(message))
        /\ sent' = [sent EXCEPT ![r] = <<sendMessage(Undefined)>>]
        /\ pc' = [pc EXCEPT ![r] = "awaiting"]
  /\ UNCHANGED <<rpc, bridge, crashed>>
  /\ UNCHANGED <<startupVars, clientVars, libVars>>

\* variant: a request is taken up only when no outbound call is in flight
Post_Serialized(body) ==
  /\ ~crashed
  /\ Len(reqs) < MaxRequests
  /\ \A x \in Ids : pc[x] # "awaiting"
  /\ LET r == Len(reqs) + 1
         message == Get(body, "message")
     IN /\ reqs' = Append(reqs, body)
        /\ outbound' = outbound \o detectIntent(r, botRequest(message))
        /\ pc' = [pc EXCEPT ![r] = "awaiting"]
  /\ UNCHANGED <<rpc, bridge, sent, crashed>>
  /\ UNCHANGED <<startupVars, clientVars, libVars>>

\* app.post("/chatbot", ...): the handler up to the await in talkToChatbot
Post(body) ==
  /\ ~crashed
  /\ Len(reqs) < MaxRequests
  /\ LET r == Len(reqs) + 1
         message == Get(body, "message")
     IN /\ reqs' = Append(reqs, body)
        /\ outbound' = outbound \o detectIntent(r, botRequest(message))
        /\ pc' = [pc EXCEPT ![r] = "awaiting"]
  /\ UNCHANGED <<rpc, bridge, sent, crashed>>
  /\ UNCHANGED <<startupVars, clientVars, libVars>>

\* the remote service answers the call of request r
Fulfil(r, responses) ==
  /\ ~crashed
  /\ pc[r] = "awaiting"
  /\ rpc' = [rpc EXCEPT ![r] = Fulfilled(responses)]
  /\ pc' = [pc EXCEPT ![r] = "settled"]
  /\ UNCHANGED <<reqs, outbound, bridge, sent, crashed>>
  /\ UNCHANGED <<startupVars, clientVars, libVars>>

\* the call of request r fails
Reject(r, error) ==
  /\ ~crashed
  /\ pc[r] = "awaiting"
  /\ rpc' = [rpc EXCEPT ![r] = Rejected(error)]
  /\ pc' = [pc EXCEPT ![r] = "settled"]
  /\ UNCHANGED <<reqs, outbound, bridge, sent, crashed>>
  /\ UNCHANGED <<startupVars, clientVars, libVars>>

\* variant: talkToChatbot gives up waiting (a timeout on the await) and
\* returns undefined while the call is still pending
BridgeResume_Timeout(r) ==
  /\ ~crashed
  /\ pc[r] \in {"awaiting", "settled"}
  /\ bridge' = [bridge EXCEPT ![r] =
        IF pc[r] = "awaiting" THEN Fulfilled(Undefined)
                               ELSE talkToChatbot(rpc[r])]
  /\ pc' = [pc EXCEPT ![r] = "returned"]
  /\ UNCHANGED <<reqs, outbound, rpc, sent, crashed>>
  /\ UNCHANGED <<startupVars, clientVars, libVars>>

\* variant: the responses are kept in a variable shared by all invocations,
\* so a resuming invocation sees the result of the latest settled call
BridgeResume_SharedResponse(r) ==
  /\ ~crashed
  /\ pc[r] = "settled"
  /\ LET last == CHOOSE x \in Ids :
                   /\ rpc[x].state # "pending"
                   /\ \A y \in Ids : rpc[y].state # "pending" => y <= x
     IN bridge' = [bridge EXCEPT ![r] = talkToChatbot(rpc[last])]
  /\ pc' = [pc EXCEPT ![r] = "returned"]
  /\ UNCHANGED <<reqs, outbound, rpc, sent, crashed>>
  /\ UNCHANGED <<startupVars, clientVars, libVars>>

\* talkToChatbot resumes after its await and returns
BridgeResume(r) ==
  /\ ~crashed
  /\ pc[r] = "settled"
  /\ bridge' = [bridge EXCEPT ![r] = talkToChatbot(rpc[r])]
  /\ pc' = [pc EXCEPT ![r] = "returned"]
  /\ UNCHANGED <<reqs, outbound, rpc, sent, crashed>>
  /\ UNCHANGED <<startupVars, clientVars, libVars>>

\* the handler's .then/.catch callbacks run
EndpointResume(r) ==
  /\ ~crashed
  /\ pc[r] = "returned"
  /\ sent' = [sent EXCEPT ![r] = sent[r] \o respond(bridge[r])]
  /\ crashed' = (handlerSettles(bridge[r]).state = "rejected")
  /\ pc' = [pc EXCEPT ![r] = "done"]
  /\ UNCHANGED <<reqs, outbound, rpc, bridge>>
  /\ UNCHANGED <<startupVars, clientVars, libVars>>

Next ==
  \/ \E body \in Bodies : Post(body)
  \/ \E r \in Ids, responses \in Responses : Fulfil(r, responses)
  \/ \E r \in Ids, error \in Errors : Reject(r, error)
  \/ \E r \in Ids : BridgeResume(r)
  \/ \E r \in Ids : EndpointResume(r)

Spec == Init /\ [][Next]_vars

\* The event loop runs every scheduled continuation; the remote service is
\* under no obligation to answer.
FairSpec ==
  /\ Spec
  /\ \A r \in Ids : WF_vars(BridgeResume(r))
  /\ \A r \in Ids : WF_vars(EndpointResume(r))

----------------------------------------------------------------------------
(* Startup *)

StartupInit ==
  /\ ServerInit
  /\ ToggleInit
  /\ LibNotFollowed
  /\ envPort \in EnvValues
  /\ dotenvPort \in EnvValues
  /\ spc = "start"
  /\ listeners = {}
  /\ ticks = << >>

\* index.js:7 requires ./chatbot; chatbot.js creates the session client and
\* exports talkToChatbot
LoadBridge ==
  /\ spc = "start"
  /\ spc' = "bridge"
  /\ UNCHANGED <<envPort, dotenvPort, listeners, ticks>>
  /\ UNCHANGED <<reqs, pc, outbound, rpc, bridge, sent, crashed, clientVars, libVars>>

\* chatbot.js goes on: dotenv.config()
DotenvConfig ==
  /\ spc = "bridge"
  /\ envPort' = DotenvLoad(envPort, dotenvPort)
  /\ spc' = "env"
  /\ UNCHANGED <<dotenvPort, listeners, ticks>>
  /\ UNCHANGED <<reqs, pc, outbound, rpc, bridge, sent, crashed, clientVars, libVars>>

\* chatbot.js: const app = express(); const PORT = process.env.PORT || 5000;
\* app.listen(PORT, ...)
ChatbotListen ==
  /\ spc = "env"
  /\ ListenChatbot(PortOr(envPort))
  /\ spc' = "required"
  /\ UNCHANGED <<envPort, dotenvPort>>
  /\ UNCHANGED <<reqs, pc, outbound, rpc, bridge, sent, crashed, clientVars, libVars>>

\* index.js goes on after the require: the route is registered,
\* const port = process.env.PORT || 5000; app.listen(port, ...)
IndexListen ==
  /\ spc = "required"
  /\ ListenIndex(PortOr(envPort))
  /\ spc' = "loaded"
  /\ UNCHANGED <<envPort, dotenvPort>>
  /\ UNCHANGED <<reqs, pc, outbound, rpc, bridge, sent, crashed, clientVars, libVars>>

\* a 'listening' event: the callback given to listen logs the port
EmitListening ==
  /\ spc = "loaded"
  /\ ~crashed
  /\ ticks # << >>
  /\ Head(ticks).kind = "listening"
  /\ ticks' = Tail(ticks)
  /\ UNCHANGED <<envPort, dotenvPort, spc, listeners, crashed>>
  /\ UNCHANGED <<reqs, pc, outbound, rpc, bridge, sent, clientVars, libVars>>

\* an 'error' event on a server without an 'error' listener is thrown and
\* ends the process
EmitError ==
  /\ spc = "loaded"
  /\ ~crashed
  /\ ticks # << >>
  /\ Head(ticks).kind = "error"
  /\ ticks' = Tail(ticks)
  /\ crashed' = TRUE
  /\ UNCHANGED <<envPort, dotenvPort, spc, listeners>>
  /\ UNCHANGED <<reqs, pc, outbound, rpc, bridge, sent, clientVars, libVars>>

StartupNext ==
  \/ LoadBridge
  \/ DotenvConfig
  \/ ChatbotListen
  \/ IndexListen
  \/ EmitListening
  \/ EmitError

StartupSpec == StartupInit /\ [][StartupNext]_vars

----------------------------------------------------------------------------
(* Clicks on the language buttons *)

\* the English button is clicked: onClickBtn1 makes its first setter call
ClickEnglish ==
  /\ todo = << >>
  /\ Len(clicks) < MaxClicks
  /\ flags' = Apply(flags, Head(onClickBtn1))
  /\ todo' = Tail(onClickBtn1)
  /\ clicks' = Append(clicks, "English")
  /\ UNCHANGED <<reqs, pc, outbound, rpc, bridge, sent, crashed, startupVars, libVars>>

\* the Hindi button is clicked: onClickBtn2 makes its first setter call
ClickHindi ==
  /\ todo = << >>
  /\ Len(clicks) < MaxClicks
  /\ flags' = Apply(flags, Head(onClickBtn2))
  /\ todo' = Tail(onClickBtn2)
  /\ clicks' = Append(clicks, "Hindi")
  /\ UNCHANGED <<reqs, pc, outbound, rpc, bridge, sent, crashed, startupVars, libVars>>

\* the running click handler makes its next setter call
HandlerStep ==
  /\ todo # << >>
  /\ flags' = Apply(flags, Head(todo))
  /\ todo' = Tail(todo)
  /\ UNCHANGED clicks
  /\ UNCHANGED <<reqs, pc, outbound, rpc, bridge, sent, crashed, startupVars, libVars>>

ToggleNext ==
  \/ ClickEnglish
  \/ ClickHindi
  \/ HandlerStep

ToggleStart ==
  /\ ServerInit
  /\ StartupNotFollowed
  /\ ToggleInit
  /\ LibNotFollowed

ToggleSpec == ToggleStart /\ [][ToggleNext]_vars

----------------------------------------------------------------------------
(* Rendering and parsing resource names *)

PathInit ==
  /\ ServerInit
  /\ StartupNotFollowed
  /\ ToggleInit
  /\ LibNotFollowed

\* client.entityTypePath(project, entityType) of an EntityTypesClient
RenderEntityType(project, entityType) ==
  /\ rendered = NothingRendered
  /\ rendered' = [client |-> "EntityTypesClient",
                  args |-> <<project, entityType>>,
                  name |-> entityTypePath(project, entityType)]
  /\ UNCHANGED matched
  /\ UNCHANGED <<reqs, pc, outbound, rpc, bridge, sent, crashed,
                 startupVars, clientVars, gapicVars>>

\* client.documentPath(project, knowledgeBase, document) of a DocumentsClient
RenderDocument(project, knowledgeBase, document) ==
  /\ rendered = NothingRendered
  /\ rendered' = [client |-> "DocumentsClient",
                  args |-> <<project, knowledgeBase, document>>,
                  name |-> documentPath(project, knowledgeBase, document)]
  /\ UNCHANGED matched
  /\ UNCHANGED <<reqs, pc, outbound, rpc, bridge, sent, crashed,
                 startupVars, clientVars, gapicVars>>

\* the matchers of the EntityTypesClient applied to the rendered name
MatchEntityTypeName ==
  /\ rendered.client = "EntityTypesClient"
  /\ matched = NothingMatched
  /\ matched' = [state |-> "done",
                 results |-> <<matchProjectFromEntityTypeName(rendered.name),
                               matchEntityTypeFromEntityTypeName(rendered.name)>>]
  /\ UNCHANGED rendered
  /\ UNCHANGED <<reqs, pc, outbound, rpc, bridge, sent, crashed,
                 startupVars, clientVars, gapicVars>>

\* the matchers of the DocumentsClient applied to the rendered name
MatchDocumentName ==
  /\ rendered.client = "DocumentsClient"
  /\ matched = NothingMatched
  /\ matched' = [state |-> "done",
                 results |-> <<matchProjectFromDocumentName(rendered.name),
                               matchKnowledgeBaseFromDocumentName(rendered.name),
                               matchDocumentFromDocumentName(rendered.name)>>]
  /\ UNCHANGED rendered
  /\ UNCHANGED <<reqs, pc, outbound, rpc, bridge, sent, crashed,
                 startupVars, clientVars, gapicVars>>

PathNext ==
  \/ \E project, entityType \in Strings :
       RenderEntityType(project, entityType)
  \/ \E project, knowledgeBase, document \in Strings :
       RenderDocument(project, knowledgeBase, document)
  \/ MatchEntityTypeName
  \/ MatchDocumentName

PathSpec == PathInit /\ [][PathNext]_vars

----------------------------------------------------------------------------
(* Constructing the generated clients and calling their request methods *)

ClientsInit ==
  /\ ServerInit
  /\ StartupNotFollowed
  /\ ToggleInit
  /\ LibNotFollowed

\* what createApiCall makes of an invocation once innerCallPromise has
\* settled as p: the function p resolved with is called with the request; a
\* function that throws, and a rejected p, fail the API call with that error
apiCallOutcome(p) ==
  IF p.state = "rejected" THEN [state |-> "failed", error |-> p.value]
  ELSE IF p.value.kind = "forward" THEN [state |-> "forwarded", error |-> Undefined]
  ELSE IF p.value.kind = "thrower" THEN [state |-> "failed", error |-> p.value.err]
  ELSE [state |-> "hung", error |-> Undefined]

\* new EntityTypesClient(opts) or new DocumentsClient(opts): createStub
\* returns a promise, and the loop over the stub methods gives every name
\* an inner API call; the constructor returns
Construct(c) ==
  /\ clients[c].constructed = "no"
  /\ clients' = [clients EXCEPT ![c] =
       [constructed |-> "returned",
        stub |-> Pending,
        innerApiCalls |-> {m \in stubMethods(c) : TRUE}]]
  /\ UNCHANGED <<apiCall, reached>>
  /\ UNCHANGED <<reqs, pc, outbound, rpc, bridge, sent, crashed,
                 startupVars, clientVars, pathVars>>

\* the promise of createStub fulfils with the stub
StubCreated(c) ==
  /\ clients[c].constructed = "returned"
  /\ clients[c].stub.state = "pending"
  /\ clients' = [clients EXCEPT ![c].stub =
       Fulfilled([type |-> "stub", client |-> c])]
  /\ UNCHANGED <<apiCall, reached>>
  /\ UNCHANGED <<reqs, pc, outbound, rpc, bridge, sent, crashed,
                 startupVars, clientVars, pathVars>>

\* the promise of createStub rejects
StubFails(c, err) ==
  /\ clients[c].constructed = "returned"
  /\ clients[c].stub.state = "pending"
  /\ clients' = [clients EXCEPT ![c].stub = Rejected(err)]
  /\ UNCHANGED <<apiCall, reached>>
  /\ UNCHANGED <<reqs, pc, outbound, rpc, bridge, sent, crashed,
                 startupVars, clientVars, pathVars>>

\* client[m](request, options, callback), for any arguments
CallMethod(c, m) ==
  /\ clients[c].constructed = "returned"
  /\ apiCall = NoCall
  /\ \E request \in RequestArgs, options \in OptionsArgs,
        callback \in CallbackArgs :
       LET result == apiMethod(m, request, options, callback)
           defined == \A i \in 1..Len(result.invocations) :
                        result.invocations[i].method \in clients[c].innerApiCalls
       IN apiCall' =
            [state |-> IF result.threw \/ ~defined THEN "threw" ELSE "pending",
             client |-> c,
             method |-> m,
             given |-> [request |-> request, options |-> options,
                        callback |-> callback],
             invocations |-> result.invocations,
             error |-> IF result.threw \/ ~defined THEN TypeError ELSE Undefined]
  /\ UNCHANGED <<clients, reached>>
  /\ UNCHANGED <<reqs, pc, outbound, rpc, bridge, sent, crashed,
                 startupVars, clientVars, pathVars>>

\* innerCallPromise has settled: the inner API call runs the function
RunInner ==
  /\ apiCall.state = "pending"
  /\ LET c == apiCall.client
         p == innerCallPromise(clients[c].stub, apiCall.method)
         outcome == apiCallOutcome(p)
     IN /\ p.state # "pending"
        /\ apiCall' = [apiCall EXCEPT !.state = outcome.state,
                                      !.error = outcome.error]
        /\ reached' = [reached EXCEPT ![c] = @ \/ outcome.state = "forwarded"]
  /\ UNCHANGED clients
  /\ UNCHANGED <<reqs, pc, outbound, rpc, bridge, sent, crashed,
                 startupVars, clientVars, pathVars>>

\* the call is over for the caller
ForgetCall ==
  /\ apiCall.state \in {"threw", "forwarded", "failed"}
  /\ apiCall' = NoCall
  /\ UNCHANGED <<clients, reached>>
  /\ UNCHANGED <<reqs, pc, outbound, rpc, bridge, sent, crashed,
                 startupVars, clientVars, pathVars>>

ClientsNext ==
  \/ \E c \in Clients : Construct(c)
  \/ \E c \in Clients : StubCreated(c)
  \/ \E c \in Clients, err \in StubErrors : StubFails(c, err)
  \/ \E c \in Clients : \E m \in stubMethods(c) : CallMethod(c, m)
  \/ RunInner
  \/ ForgetCall

ClientsSpec == ClientsInit /\ [][ClientsNext]_vars

TypeOK ==
  /\ Len(reqs) <= MaxRequests
  /\ \A i \in 1..Len(reqs) : reqs[i] \in Bodies
  /\ pc \in [Ids -> {"none", "awaiting", "settled", "returned", "done"}]
  /\ \A r \in Ids : rpc[r].state \in {"pending", "fulfilled", "rejected"}
  /\ \A r \in Ids : bridge[r].state \in {"pending", "fulfilled", "rejected"}
  /\ crashed \in BOOLEAN
  /\ envPort \in EnvValues
  /\ dotenvPort \in EnvValues
  /\ spc \in {"serving", "start", "bridge", "env", "required", "loaded"}
  /\ \A l \in listeners : l.port \in Ports /\ l.app \in {IndexApp, ChatbotApp}
  /\ \A i \in 1..Len(ticks) : ticks[i].kind \in {"listening", "error"}
  /\ flags \in [en1 : BOOLEAN, hn1 : BOOLEAN]
  /\ Len(todo) <= 1
  /\ Len(clicks) <= MaxClicks
  /\ \A i \in 1..Len(clicks) : clicks[i] \in {"English", "Hindi"}
  /\ rendered.client \in {"none", "EntityTypesClient", "DocumentsClient"}
  /\ \A i \in 1..Len(rendered.args) : rendered.args[i] \in Strings
  /\ matched.state \in {"none", "done"}
  /\ \A i \in 1..Len(matched.results) : matched.results[i].threw \in BOOLEAN
  /\ \A c \in Clients :
       /\ clients[c].constructed \in {"no", "returned"}
       /\ clients[c].stub.state \in {"pending", "fulfilled", "rejected"}
       /\ clients[c].innerApiCalls \subseteq stubMethods(c)
  /\ apiCall.state \in {"none", "pending", "threw", "forwarded", "failed", "hung"}
  /\ Len(apiCall.invocations) <= 1
  /\ reached \in [Clients -> BOOLEAN]

----------------------------------------------------------------------------
(* Properties *)

Accepted == 1..Len(reqs)

\* the request's outbound call fulfilled and its response has been sent
Succeeded(r) == rpc[r].state = "fulfilled" /\ pc[r] = "done"

\* the request's outbound call rejected and its response has been sent
Failed(r) == rpc[r].state = "rejected" /\ pc[r] = "done"

\* the queryResult of the remote answer to request r
QueryResultOf(r) == rpc[r].value.items[1].queryResult

\* the indices of the outbound calls issued for request r
CallsOf(r) == {i \in 1..Len(outbound) : outbound[i].id = r}

\* C1: a request whose detectIntent call fulfilled gets exactly one
\* response, with status 200 and a body that has a message field that is
\* neither null nor absent, and no error field.
C1_SuccessNonNullMessage ==
  \A r \in Ids :
    Succeeded(r) =>
      /\ Len(sent[r]) = 1
      /\ sent[r][1].status = 200
      /\ HasKey(sent[r][1].body, "message")
      /\ Get(sent[r][1].body, "message") \notin {Null, Undefined}
      /\ ~HasKey(sent[r][1].body, "error")

C1_Witness == \E r \in Ids : Succeeded(r) /\ Len(sent[r]) = 1

C3_BridgeNeverRejects ==
  \A r \in Ids :
    (rpc[r].state = "rejected" /\ pc[r] \in {"returned", "done"}) =>
      bridge[r] = Fulfilled(Undefined)

C3_Witness ==
  \E r \in Ids : rpc[r].state = "rejected" /\ pc[r] = "returned"

C5_FailureDistinguishable ==
  \A r1, r2 \in Ids :
    ( /\ Failed(r1)
      /\ Succeeded(r2)
      /\ QueryResultOf(r2).fulfillmentText = "" )
    => sent[r1] # sent[r2]

C5_Witness ==
  \E r1, r2 \in Ids :
    /\ Failed(r1)
    /\ Succeeded(r2)
    /\ QueryResultOf(r2).fulfillmentText = ""

\* C6: the outbound calls issued are exactly one per accepted request, and
\* none belongs to a request that was not accepted.
C6_OneCallPerRequest ==
  /\ Len(outbound) = Len(reqs)
  /\ \A r \in Accepted : Cardinality(CallsOf(r)) = 1
  /\ \A i \in 1..Len(outbound) : outbound[i].id \in Accepted

C6_Witness ==
  /\ Len(reqs) = MaxRequests
  /\ \A r \in Accepted : pc[r] = "done"
  /\ \E r \in Accepted : rpc[r].state = "rejected"

\* C7: every outbound request carries the session path computed at module
\* load, so any two outbound requests carry the same session.
C7_SameSession ==
  \A i, j \in 1..Len(outbound) :
    /\ outbound[i].request.session = outbound[j].request.session
    /\ outbound[i].request.session =
         <<"projects", projectId, "agent", "sessions", "987654">>

C7_Witness ==
  \E i, j \in 1..Len(outbound) :
    /\ i < j
    /\ outbound[i].request.queryInput.text.text
         # outbound[j].request.queryInput.text.text
    /\ pc[outbound[i].id] = "awaiting"
    /\ pc[outbound[j].id] = "awaiting"

\* C8: the outbound request of a request is {session: S, queryInput:
\* {text: {text: m, languageCode: "en-US"}}} with m the message field of
\* that request's body.
C8_RequestShape ==
  \A i \in 1..Len(outbound) :
    outbound[i].request =
      [session |-> sessionPath,
       queryInput |->
         [text |-> [text |-> Get(reqs[outbound[i].id], "message"),
                    languageCode |-> "en-US"]]]

C8_Witness ==
  \E i \in 1..Len(outbound) :
    /\ i > 1
    /\ outbound[i].request.queryInput.text.text = Str("hello")

\* C9: a request whose message is the empty string or missing is not
\* rejected: it has exactly one outbound call, carrying that empty or
\* undefined text, and no response with a client error status or an error
\* body.
C9_NoValidation ==
  \A r \in Accepted :
    Get(reqs[r], "message") \in {Undefined, Str("")} =>
      /\ Cardinality(CallsOf(r)) = 1
      /\ \A i \in CallsOf(r) :
           outbound[i].request.queryInput.text.text = Get(reqs[r], "message")
      /\ \A k \in 1..Len(sent[r]) :
           /\ sent[r][k].status = 200
           /\ ~HasKey(sent[r][k].body, "error")

C9_Witness ==
  \E r1, r2 \in Accepted :
    /\ reqs[r1] = {}
    /\ reqs[r2] = {Field("message", Str(""))}
    /\ Succeeded(r1)
    /\ Succeeded(r2)

\* C10: no response of a request is sent while its outbound call is
\* pending, and once the call has settled a response of that request is
\* eventually sent.
C10_RespondsAfterSettle ==
  /\ [](\A r \in Ids : Len(sent[r]) > 0 => rpc[r].state # "pending")
  /\ \A r \in Ids : (rpc[r].state # "pending") ~> (Len(sent[r]) > 0)

C10_Witness ==
  \E r1, r2 \in Ids :
    /\ rpc[r1].state = "rejected" /\ Len(sent[r1]) = 1
    /\ rpc[r2].state = "pending" /\ pc[r2] = "awaiting"

\* C11: as long as the outbound call of a request has not settled, the
\* request stays waiting and no response of it is sent (there is no timeout
\* or cancellation); meanwhile nothing holds the other requests up: a new
\* request can be accepted and every other request can take its next step
\* towards its response.
C11_NoTimeout ==
  /\ [][\A r \in Ids :
          (pc[r] = "awaiting" /\ rpc'[r].state = "pending")
            => (pc'[r] = "awaiting" /\ sent'[r] = << >>)]_vars
  /\ [](\A r \in Ids :
          pc[r] = "awaiting" =>
            /\ Len(reqs) < MaxRequests => ENABLED (\E body \in Bodies : Post(body))
            /\ \A r2 \in Ids \ {r} :
                 /\ pc[r2] = "settled" => ENABLED BridgeResume(r2)
                 /\ pc[r2] = "returned" => ENABLED EndpointResume(r2))

C11_Witness ==
  \E r, r2 \in Ids :
    /\ r < r2
    /\ pc[r] = "awaiting" /\ sent[r] = << >>
    /\ pc[r2] = "done" /\ Len(sent[r2]) = 1

\* C12: whatever the requests (message missing or empty included) and the
\* outcomes of their calls, the process has not crashed, and a further
\* request can be accepted.
C12_NeverCrashes ==
  /\ ~crashed
  /\ Len(reqs) < MaxRequests => ENABLED (\E body \in Bodies : Post(body))

C12_Witness ==
  \E r \in Ids :
    /\ Failed(r)
    /\ Get(reqs[r], "message") \in {Undefined, Str("")}
    /\ Len(reqs) < MaxRequests
    /\ ~crashed
    /\ ENABLED (\E body \in Bodies : Post(body))

ReplyOf(r) ==
  IF rpc[r].state = "fulfilled" THEN QueryResultOf(r) ELSE Undefined

\* C14: handling requests leaves nothing behind that a later request can
\* see: two requests with the same message get the same outbound request,
\* and two answered requests got the same response exactly when their own
\* calls were answered alike, whatever was handled before or in between.
C14_Stateless ==
  /\ \A i, j \in 1..Len(outbound) :
       Get(reqs[outbound[i].id], "message") = Get(reqs[outbound[j].id], "message")
         => outbound[i].request = outbound[j].request
  /\ \A r1, r2 \in Ids :
       (pc[r1] = "done" /\ pc[r2] = "done")
         => (sent[r1] = sent[r2] <=> ReplyOf(r1) = ReplyOf(r2))

C14_Witness ==
  \E r1, r2 \in Ids :
    /\ r1 < r2
    /\ pc[r1] = "done" /\ pc[r2] = "done"
    /\ rpc[r1] = rpc[r2]
    /\ rpc[r1].state = "fulfilled"
    /\ reqs[r1] = reqs[r2]
    /\ sent[r1] = sent[r2]

\* the requests whose outbound call is in flight
InFlight == {r \in Ids : pc[r] = "awaiting"}

\* C15: whatever the number of calls in flight, a request with any body can
\* be accepted (up to the bound of the model), and accepting it puts one
\* more call in flight at once.
C15_NoBackpressure ==
  /\ [](Len(reqs) < MaxRequests => \A body \in Bodies : ENABLED Post(body))
  /\ [][Len(reqs') = Len(reqs) + 1
          => /\ InFlight' = InFlight \cup {Len(reqs')}
             /\ Len(outbound') = Len(outbound) + 1]_vars

C15_Witness ==
  /\ Len(reqs) = MaxRequests
  /\ Cardinality(InFlight) = MaxRequests

\* C17: the response of an answered request comes from its own call: the
\* call carried the request's message, and the body holds the queryResult
\* that call was answered with, or no message when that call failed.
C17_OwnResult ==
  \A r \in Ids :
    pc[r] = "done" =>
      /\ \A i \in CallsOf(r) :
           outbound[i].request.queryInput.text.text = Get(reqs[r], "message")
      /\ \A k \in 1..Len(sent[r]) :
           Get(sent[r][k].body, "message") = ReplyOf(r)

\* a later request is answered before an earlier one, with another result
C17_Witness ==
  \E r1, r2 \in Ids :
    /\ r1 < r2
    /\ pc[r2] = "done" /\ rpc[r2].state = "fulfilled"
    /\ pc[r1] = "returned" /\ rpc[r1].state = "fulfilled"
    /\ QueryResultOf(r1) # QueryResultOf(r2)
    /\ reqs[r1] # reqs[r2]

\* C18: no request has more than one response, and an answered request has
\* exactly one, whether its call fulfilled or rejected.
C18_AtMostOneResponse ==
  \A r \in Ids :
    /\ Len(sent[r]) <= 1
    /\ pc[r] = "done" => Len(sent[r]) = 1
    /\ pc[r] # "done" => Len(sent[r]) = 0

C18_Witness ==
  /\ Len(reqs) = MaxRequests
  /\ \A r \in Ids : pc[r] = "done" /\ Len(sent[r]) = 1
  /\ \E r1, r2 \in Ids : rpc[r1].state = "fulfilled" /\ rpc[r2].state = "rejected"

\* C19: the promise of talkToChatbot is never rejected and no response
\* carries the error body, whatever the outcome of the outbound call.
C19_ErrorBranchUnreachable ==
  \A r \in Ids :
    /\ bridge[r].state # "rejected"
    /\ \A k \in 1..Len(sent[r]) :
         /\ ~HasKey(sent[r][k].body, "error")
         /\ sent[r][k] # sendError(Undefined)

C19_Witness ==
  \E r1, r2 \in Ids :
    /\ Failed(r1) /\ Failed(r2)
    /\ rpc[r1].value.code = "UNAUTHENTICATED"
    /\ rpc[r2].value.code = "RESOURCE_EXHAUSTED"

\* C16 as stated: loading index.js never meets an address-in-use error and
\* the process stays up; once both files are loaded the port is bound by
\* exactly one listener, the app that has the POST /chatbot route.
C16_PortBoundOnce ==
  /\ ~crashed
  /\ \A i \in 1..Len(ticks) : ticks[i].kind # "error"
  /\ spc = "loaded" =>
       /\ Cardinality(listeners) = 1
       /\ \A l \in listeners :
            /\ l.port = PortOr(envPort)
            /\ "POST /chatbot" \in RoutesOf(l.app)

\* C20: the two flags are never both true, so the English and the Hindi
\* sections are never shown together, also between the two setter calls of
\* a click handler; when no handler is running exactly one flag is true.
C20_NeverBothLanguages ==
  /\ ~(flags.en1 /\ flags.hn1)
  /\ ~(ShowsEnglish /\ ShowsHindi)
  /\ todo = << >> => (flags.en1 # flags.hn1)

\* between the two setter calls of a click on Hindi, after earlier clicks
C20_Witness ==
  /\ Len(clicks) >= 3
  /\ clicks[Len(clicks)] = "Hindi"
  /\ clicks[Len(clicks) - 1] = "English"
  /\ todo # << >>
  /\ ~flags.en1 /\ ~flags.hn1

\* the language of the latest click; English before any click, as
\* useState(true) and useState(false) say
LastClick == IF clicks = << >> THEN "English" ELSE clicks[Len(clicks)]

\* the language whose sections, and only whose sections, are rendered
Displayed ==
  IF ShowsEnglish /\ ~ShowsHindi THEN "English"
  ELSE IF ShowsHindi /\ ~ShowsEnglish THEN "Hindi"
  ELSE IF ShowsEnglish THEN "both" ELSE "neither"

\* C21: once a click handler has run to its end (and before any click) the
\* displayed language is the one of the latest click, English when there was
\* none; a click on the button of the language already displayed changes
\* neither flag, at either of its two setter calls.
C21_LatestClickWins ==
  /\ [](todo = << >> => Displayed = LastClick)
  /\ [][Displayed = LastClick' => flags' = flags]_vars

\* Hindi clicked again while Hindi is displayed, after a change of language
C21_Witness ==
  /\ Len(clicks) >= 3
  /\ clicks[Len(clicks)] = "Hindi"
  /\ clicks[Len(clicks) - 1] = "Hindi"
  /\ clicks[Len(clicks) - 2] = "English"
  /\ todo = << >>
  /\ Displayed = "Hindi"

\* the arguments the name was rendered from are non-empty and without slash
PlainArgs ==
  \A i \in 1..Len(rendered.args) :
    rendered.args[i] # << >> /\ SlashFree(rendered.args[i])

C22_WitnessEntityType ==
  /\ rendered.client = "EntityTypesClient"
  /\ rendered.args = << <<"a", "a">>, <<"a">> >>
  /\ matched.state = "done"
  /\ ~matched.results[2].threw

FieldsAt(v) == IF v.type \in {"object", "function"} THEN v.fields ELSE {}

\* the callback was given in the place of the options
CallbackSecond ==
  IsFunction(apiCall.given.options) /\ apiCall.given.callback = Undefined

\* the options, otherArgs and headers the caller supplied
GivenOptions == IF CallbackSecond THEN {} ELSE FieldsAt(apiCall.given.options)

GivenOtherArgs == FieldsAt(Get(GivenOptions, "otherArgs"))

GivenHeaders == FieldsAt(Get(GivenOtherArgs, "headers"))

\* C24: a request method that routes by request.parent, called with any
\* arguments, does not throw and invokes its inner API call exactly once,
\* with the request (an empty one when none was given); a function given
\* second with no third argument is passed as the callback and the options
\* then hold nothing but otherArgs.headers; the header x-goog-request-params
\* of the options passed is the routing header of request.parent, whatever
\* the caller put there; every other header, every other field of otherArgs
\* and every other option of the caller is passed unchanged, and nothing
\* else is added.
C24_RoutingHeaderSet ==
  (apiCall.state # "none" /\ RoutingKey(apiCall.method) = "parent") =>
    /\ apiCall.state # "threw"
    /\ Len(apiCall.invocations) = 1
    /\ LET inv == apiCall.invocations[1]
           options == FieldsAt(inv.options)
           otherArgs == FieldsAt(Get(options, "otherArgs"))
           headers == FieldsAt(Get(otherArgs, "headers"))
       IN /\ inv.method = apiCall.method
          /\ inv.request = Or(apiCall.given.request, Obj({}))
          /\ inv.callback = IF CallbackSecond THEN apiCall.given.options
                                              ELSE apiCall.given.callback
          /\ CallbackSecond =>
               inv.options =
                 Obj({Field("otherArgs",
                        Obj({Field("headers",
                               Obj({Field(RequestParamsHeader,
                                      fromParams("parent",
                                        Get(FieldsAt(inv.request), "parent")))}))}))})
          /\ Get(headers, RequestParamsHeader)
               = fromParams("parent", Get(FieldsAt(apiCall.given.request), "parent"))
          /\ {f \in headers : f.key # RequestParamsHeader}
               = {f \in GivenHeaders : f.key # RequestParamsHeader}
          /\ {f \in otherArgs : f.key # "headers"}
               = {f \in GivenOtherArgs : f.key # "headers"}
          /\ {f \in options : f.key # "otherArgs"}
               = {f \in GivenOptions : f.key # "otherArgs"}

\* listDocuments called with a parent, a callback, and options that carry a
\* header of the caller's next to a routing header of the caller's
C24_Witness ==
  /\ apiCall.method = "listDocuments"
  /\ apiCall.given.request = Obj({Field("parent", Str("projects/q/agent"))})
  /\ apiCall.given.callback = Fn("callback")
  /\ Get(GivenHeaders, RequestParamsHeader) = Str("parent=caller")
  /\ Get(GivenHeaders, "x-custom") = Str("v")
  /\ Get(GivenOptions, "timeout") = Str("5000")
  /\ Len(apiCall.invocations) = 1
  /\ apiCall.state = "forwarded"

\* listEntityTypes called with a request and a callback in second place
C24_WitnessCallbackSecond ==
  /\ apiCall.method = "listEntityTypes"
  /\ CallbackSecond
  /\ apiCall.given.request = Obj({Field("parent", Str("projects/p/agent"))})
  /\ Len(apiCall.invocations) = 1

====
